---- MODULE Spec2Model ----
(***************************************************************************)
(* The JackClient wrapper of opampband/jack-wrapper, in its two drafts:    *)
(*   "hdr"   src/include/jack_wrapper/jack_wrapper.h (constructors call    *)
(*           open(); ports are references to the caller's variables),      *)
(*   "draft" src/main.cpp (explicit open(); ports are static members).     *)
(* The JACK server is the environment: every server call's result is an    *)
(* input chosen by the action, and the calls an operation issues, with     *)
(* their results, are recorded in lastOp.                                  *)
(***************************************************************************)
EXTENDS Integers, Sequences, FiniteSets

\* ---------------------------------------------------------------- bounds
NumHandles == 2
MaxConns == 2

Handles == 1..NumHandles
Variants == {"hdr", "draft"}
Rates == {48000}
BufSizes == {256, 512}

\* ------------------------------------------------------- values, helpers
\* client before any assignment (an indeterminate pointer) and the null
\* pointer; connections handed out by the server are 1, 2, ...
UNINIT == -1
NULL == 0

\* a jack_port_t*: the port of kind k registered on connection c, or null
NULLPORT == [c |-> 0, k |-> "none"]
Port(c, k) == [c |-> c, k |-> k]

\* a full port name "owner:short"
PName(owner, short) == [owner |-> owner, short |-> short]

\* one server call of an operation, with its result
Call(f, c, name, st, args, ok) == [f |-> f, c |-> c, name |-> name, st |-> st, args |-> args, ok |-> ok]

\* a client name: the name asked for (n = 0) or the n-th substitute the
\* server makes up for it
Name(base, n) == [base |-> base, n |-> n]

ReqNames == {Name("simple", 0)}

\* what jack_get_ports may return for each direction (<<>> is NULL)
CaptureLists == {<<>>, <<PName("system", "capture_1")>>, <<PName("system", "capture_2"), PName("system", "capture_1")>>}

PlaybackLists == {<<>>, <<PName("system", "playback_1")>>, <<PName("system", "playback_2"), PName("system", "playback_1")>>}

VARIABLES variant, nh, proc, obj, inputPort, outputPort, midiVar, conn, reported, srvRate, srvBuf, lastOp

vars == <<variant, nh, proc, obj, inputPort, outputPort, midiVar, conn, reported, srvRate, srvBuf, lastOp>>

\* the variable a handle's inputPort/outputPort names: the caller's own
\* variables in hdr (one pair per handle), the class's statics in draft
Slot(h) == IF variant = "draft" THEN 0 ELSE h

\* memory of a handle that has not been constructed
NoObject == [life |-> "none", clientName |-> Name("", 0), midiInput |-> FALSE, midiInputPort |-> "nullptr", client |-> UNINIT, options |-> "UNINIT", sampleRate |-> UNINIT, bufferSize |-> UNINIT]

\* the latest operation: which, on which handle (and whether that handle
\* asks for MIDI input), the server calls it issued and the lines it wrote
Op(op, h, midiInput, calls, msgs) == [op |-> op, h |-> h, midiInput |-> midiInput, calls |-> calls, msgs |-> msgs]

NoOp == Op("none", 0, FALSE, <<>>, <<>>)

\* a line written to std::cout / std::cerr
Msg(text, arg) == [text |-> text, arg |-> arg]

\* --------------------------------------------------------------- open()
\* What the server answers to one open(): whether jack_client_open returns
\* a client, the status word (as the set of its flags), and the result of
\* each jack_port_register.  garbage is the outcome of passing the
\* 5-argument constructor's never-initialised options/serverName to
\* jack_client_open.
OpenAnswers == {[garbage |-> g, connOk |-> TRUE, status |-> st, inOk |-> i, outOk |-> o, midiOk |-> m] : g \in {"benign", "fault"}, st \in SUBSET {"JackServerStarted", "JackNameNotUnique"}, i \in BOOLEAN, o \in BOOLEAN, m \in BOOLEAN} \cup {[garbage |-> "benign", connOk |-> FALSE, status |-> st, inOk |-> FALSE, outOk |-> FALSE, midiOk |-> FALSE] : st \in {{"JackFailure"}, {"JackFailure", "JackServerFailed"}}}

\* the names of this program's open connections
NamesInUse(cn) == {cn[c].name : c \in {d \in DOMAIN cn : cn[d].st # "closed"}}

\* the server's substitute for a name that is taken: the first free one
Substitute(hint, cn) == Name(hint.base, CHOOSE n \in 1..(Len(cn) + 2) : /\ Name(hint.base, n) \notin NamesInUse(cn) \cup {hint} /\ \A m \in 1..(n - 1) : Name(hint.base, m) \in NamesInUse(cn) \cup {hint})

\* the answers open() can get.  Options that were initialised are not
\* garbage; an answer that is never asked for is left at its first value;
\* only the program's first connection can have started the server; and a
\* name one of this program's open connections has is never unique (another
\* program may have any name, so any name may be flagged).
ServerOpenAnswers(hint, options, midiInput, cn) ==
  LET inUse == hint \in NamesInUse(cn)
      sub == Substitute(hint, cn)
      asked == {x \in OpenAnswers : /\ (options # "UNINIT" => x.garbage = "benign") /\ (x.garbage = "fault" => x.status = {} /\ x.inOk /\ x.outOk /\ x.midiOk) /\ (~midiInput => x.midiOk) /\ (cn # <<>> => "JackServerStarted" \notin x.status) /\ (x.connOk /\ x.garbage = "benign" /\ inUse => "JackNameNotUnique" \in x.status)}
  IN  {[garbage |-> b.garbage, connOk |-> b.connOk, status |-> b.status, assigned |-> IF "JackNameNotUnique" \in b.status THEN sub ELSE hint, inOk |-> b.inOk, outOk |-> b.outOk, midiOk |-> b.midiOk] : b \in asked}

\* open() without lines 62-65: the substitute name is never fetched
uniqueName_kept(status, clientName, serverName) == clientName

\* jack_wrapper.h:60-65, main.cpp:47-52: the name the handle goes by after
\* jack_client_open returned status; serverName is what
\* jack_get_client_name would return.
uniqueName(status, clientName, serverName) == IF "JackNameNotUnique" \in status THEN serverName ELSE clientName

\* jack_wrapper.h:91 and main.cpp:68: the test that guards exit(1) after
\* the registrations.  The header tests the pointer midiInputPort itself.
noMorePorts(v, in, out, midiInputPort) == IF v = "hdr" THEN in = NULLPORT \/ out = NULLPORT \/ midiInputPort = "nullptr" ELSE in = NULLPORT \/ out = NULLPORT

\* jack_wrapper.h:45-95 (v = "hdr") and main.cpp:32-72 (v = "draft").
\* self: the handle's fields; pin, pout, pmid: the current values of the
\* variables inputPort, outputPort and *midiInputPort; newc: the connection
\* the server would hand out; rate, buf: the engine's current parameters.
open(v, h, self, pin, pout, pmid, newc, rate, buf, srv) ==
  LET c == IF srv.connOk THEN newc ELSE NULL
      s1 == [self EXCEPT !.client = c]
      callOpen == Call("jack_client_open", c, self.clientName.base, srv.status, <<self.clientName>>, srv.connOk)
      notUnique == "JackNameNotUnique" \in srv.status
      s2 == [s1 EXCEPT !.clientName = uniqueName(srv.status, self.clientName, srv.assigned)]
      s3 == IF v = "hdr" THEN [s2 EXCEPT !.sampleRate = rate, !.bufferSize = buf] ELSE s2
      in1 == IF srv.inOk THEN Port(c, "input") ELSE NULLPORT
      out1 == IF srv.outOk THEN Port(c, "output") ELSE NULLPORT
      derefNull == v = "hdr" /\ self.midiInput /\ self.midiInputPort = "nullptr"
      regMidi == v = "hdr" /\ self.midiInput /\ ~derefNull
      mid1 == IF regMidi THEN (IF srv.midiOk THEN Port(c, "midi_in") ELSE NULLPORT) ELSE pmid
      registered == (IF srv.inOk THEN {"input"} ELSE {}) \cup (IF srv.outOk THEN {"output"} ELSE {}) \cup (IF regMidi /\ srv.midiOk THEN {"midi_in"} ELSE {})
      newConn == [st |-> "open", name |-> srv.assigned, ports |-> registered, cb |-> TRUE, shut |-> TRUE, owner |-> h, reclosed |-> FALSE]
      callsSetup == <<Call("jack_set_process_callback", c, "", {}, <<>>, TRUE), Call("jack_on_shutdown", c, "", {}, <<>>, TRUE), Call("jack_get_sample_rate", c, "", {}, <<>>, TRUE)>> \o (IF v = "hdr" THEN <<Call("jack_get_buffer_size", c, "", {}, <<>>, TRUE)>> ELSE <<>>)
      callsName == IF notUnique THEN <<Call("jack_get_client_name", c, srv.assigned.base, {}, <<srv.assigned>>, TRUE)>> ELSE <<>>
      callsReg == <<Call("jack_port_register", c, "input", {}, <<>>, srv.inOk), Call("jack_port_register", c, "output", {}, <<>>, srv.outOk)>>
      callsMidi == IF regMidi THEN <<Call("jack_port_register", c, "midi_in", {}, <<>>, srv.midiOk)>> ELSE <<>>
      msgs1 == (IF "JackServerStarted" \in srv.status THEN <<Msg("JACK server started", <<>>)>> ELSE <<>>) \o (IF notUnique THEN <<Msg("Unique name assigned: ", <<srv.assigned>>)>> ELSE <<>>) \o <<Msg("Engine sample rate: ", <<>>)>> \o (IF v = "hdr" THEN <<Msg("Engine buffer size: ", <<>>)>> ELSE <<>>)
      noPorts == noMorePorts(v, in1, out1, self.midiInputPort)
  IN  IF srv.garbage = "fault"
      THEN [self |-> self, inputPort |-> pin, outputPort |-> pout, midiVar |-> pmid, conns |-> <<>>, calls |-> <<>>, msgs |-> <<>>, proc |-> "fault"]
      ELSE IF c = NULL
      THEN [self |-> s1, inputPort |-> pin, outputPort |-> pout, midiVar |-> pmid, conns |-> <<>>, calls |-> <<callOpen>>, msgs |-> <<Msg("jack_client_open() failed, status = 0x", <<>>)>> \o (IF "JackServerFailed" \in srv.status THEN <<Msg("Unable to connect to JACK server", <<>>)>> ELSE <<>>), proc |-> "exit1"]
      ELSE IF derefNull
      THEN [self |-> s3, inputPort |-> in1, outputPort |-> out1, midiVar |-> pmid, conns |-> <<newConn>>, calls |-> <<callOpen>> \o callsName \o callsSetup \o callsReg, msgs |-> msgs1, proc |-> "fault"]
      ELSE [self |-> s3, inputPort |-> in1, outputPort |-> out1, midiVar |-> mid1, conns |-> <<newConn>>, calls |-> <<callOpen>> \o callsName \o callsSetup \o callsReg \o callsMidi, msgs |-> msgs1 \o (IF noPorts THEN <<Msg("No more JACK ports available!", <<>>)>> ELSE <<>>), proc |-> IF noPorts THEN "exit1" ELSE "running"]

\* ---------------------------------------------------------------- run()
\* What the server answers to one run(): ub is the outcome of handing
\* jack_activate a client that is not an open connection.
RunAnswers == {[ub |-> u, activateOk |-> a, capture |-> cl, captureOk |-> co, playback |-> pl, playbackOk |-> po] : u \in {"error", "fault"}, a \in BOOLEAN, cl \in CaptureLists, co \in BOOLEAN, pl \in PlaybackLists, po \in BOOLEAN}

\* the answers run() can tell apart when client is an open connection: an
\* answer the server is never asked for is left at its first value
RunAnswersLive == {a \in RunAnswers : /\ a.ub = "error" /\ (~a.activateOk => a.capture = <<>>) /\ (a.capture = <<>> => a.captureOk /\ a.playback = <<>>) /\ (a.playback = <<>> => a.playbackOk)}

\* and when it is not: only the outcome of the invalid call is read
RunAnswersDead == {a \in RunAnswers : a.activateOk /\ a.capture = <<>> /\ a.captureOk /\ a.playback = <<>> /\ a.playbackOk}

ServerRunAnswers(live) == IF live THEN RunAnswersLive ELSE RunAnswersDead

\* jack_port_name(port)
jack_port_name(cn, port) == IF port.c \in DOMAIN cn THEN PName(cn[port.c].name, port.k) ELSE PName(Name("", 0), port.k)

\* run() with its two blocks the other way round
PatchOrder_swapped == <<"playback", "capture">>

\* the two discovery/connect blocks of run(), in program order
PatchOrder == <<"capture", "playback">>

\* a failed jack_connect handled like the other failures of run(): exit(1)
connectOutcome_fatal(dir, ok) == [msgs |-> IF ok THEN <<>> ELSE <<Msg(IF dir = "capture" THEN "cannot connect input ports" ELSE "cannot connect output ports", <<>>)>>, proc |-> IF ok THEN "running" ELSE "exit1"]

\* jack_wrapper.h:119-121 and 134-136: a failed jack_connect is logged only
connectOutcome(dir, ok) == [msgs |-> IF ok THEN <<>> ELSE <<Msg(IF dir = "capture" THEN "cannot connect input ports" ELSE "cannot connect output ports", <<>>)>>, proc |-> "running"]

\* run() connecting the last port of the list instead of the first
ports0_last(list) == list[Len(list)]

\* jack_wrapper.h:119, 134 and 137: ports[0]
ports0(list) == list[1]

\* run() without lines 123 and 139: the lists are never released
release_never(dir, c, list) == <<>>

\* jack_wrapper.h:123 and 139: free(ports)
release(dir, c, list) == <<Call("free", c, dir, {}, list, TRUE)>>

\* jack_wrapper.h:110-123 (dir = "capture") and 125-139 (dir = "playback"):
\* jack_get_ports, the NULL test, jack_connect with ports[0], for playback
\* the line that prints ports[0], then free(ports), in program order.
\* own is the handle's port of that direction, list what discovery returns.
patch(dir, c, cn, own, list, ok) ==
  LET getPorts == Call("jack_get_ports", c, dir, {}, list, list # <<>>)
      ownName == jack_port_name(cn, own)
      ends == IF dir = "capture" THEN <<ports0(list), ownName>> ELSE <<ownName, ports0(list)>>
      co == connectOutcome(dir, ok)
      said == IF dir = "playback" THEN <<Msg("connected to playback port: ", <<ports0(list)>>)>> ELSE <<>>
      print == IF dir = "playback" THEN <<Call("cout", c, dir, {}, <<ports0(list)>>, TRUE)>> ELSE <<>>
  IN  IF list = <<>>
      THEN [calls |-> <<getPorts>>, msgs |-> <<Msg(IF dir = "capture" THEN "no physical capture ports" ELSE "no physical playback ports", <<>>)>>, proc |-> "exit1"]
      ELSE IF co.proc # "running"
      THEN [calls |-> <<getPorts, Call("jack_connect", c, dir, {}, ends, ok)>>, msgs |-> co.msgs, proc |-> co.proc]
      ELSE [calls |-> <<getPorts, Call("jack_connect", c, dir, {}, ends, ok)>> \o print \o release(dir, c, list), msgs |-> co.msgs \o said, proc |-> "running"]

\* run() without the test of jack_activate's result (lines 102-105)
run_unchecked(self, pin, pout, cn, srv) ==
  LET c == self.client
      live == c \in DOMAIN cn /\ cn[c].st # "closed"
      activated == live /\ srv.activateOk
      callActivate == Call("jack_activate", c, "", {}, <<>>, activated)
      cn1 == IF activated THEN [cn EXCEPT ![c].st = "active"] ELSE cn
      first == patch("capture", c, cn1, pin, srv.capture, srv.captureOk)
      second == patch("playback", c, cn1, pout, srv.playback, srv.playbackOk)
  IN  IF first.proc # "running"
      THEN [conn |-> cn1, calls |-> <<callActivate>> \o first.calls, msgs |-> first.msgs, proc |-> first.proc]
      ELSE [conn |-> cn1, calls |-> <<callActivate>> \o first.calls \o second.calls, msgs |-> first.msgs \o second.msgs, proc |-> second.proc]

\* jack_wrapper.h:100-140 and main.cpp:77-117
run(self, pin, pout, cn, srv) ==
  LET c == self.client
      live == c \in DOMAIN cn /\ cn[c].st # "closed"
      activated == live /\ srv.activateOk
      callActivate == Call("jack_activate", c, "", {}, <<>>, activated)
      cn1 == IF activated THEN [cn EXCEPT ![c].st = "active"] ELSE cn
      Own(dir) == IF dir = "capture" THEN pin ELSE pout
      List(dir) == IF dir = "capture" THEN srv.capture ELSE srv.playback
      Ok(dir) == IF dir = "capture" THEN srv.captureOk ELSE srv.playbackOk
      first == patch(PatchOrder[1], c, cn1, Own(PatchOrder[1]), List(PatchOrder[1]), Ok(PatchOrder[1]))
      second == patch(PatchOrder[2], c, cn1, Own(PatchOrder[2]), List(PatchOrder[2]), Ok(PatchOrder[2]))
  IN  IF ~live /\ srv.ub = "fault"
      THEN [conn |-> cn, calls |-> <<callActivate>>, msgs |-> <<>>, proc |-> "fault"]
      ELSE IF ~activated
      THEN [conn |-> cn, calls |-> <<callActivate>>, msgs |-> <<Msg("Cannot activate client!", <<>>)>>, proc |-> "exit1"]
      ELSE IF first.proc # "running"
      THEN [conn |-> cn1, calls |-> <<callActivate>> \o first.calls, msgs |-> first.msgs, proc |-> first.proc]
      ELSE [conn |-> cn1, calls |-> <<callActivate>> \o first.calls \o second.calls, msgs |-> first.msgs \o second.msgs, proc |-> second.proc]

\* -------------------------------------------------------------- close()
\* jack_wrapper.h:145-147 and main.cpp:122-124: jack_client_close(client),
\* whatever client holds.  ub is the outcome when client is not an open
\* connection (never assigned, or already closed).
close(self, cn, ub) ==
  LET c == self.client
      live == c \in DOMAIN cn /\ cn[c].st # "closed"
  IN  [conn |-> IF c \in DOMAIN cn THEN [cn EXCEPT ![c].st = "closed", ![c].reclosed = ~live] ELSE cn, calls |-> <<Call("jack_client_close", c, "", {}, <<>>, live)>>, msgs |-> <<>>, proc |-> IF live \/ ub = "benign" THEN "running" ELSE "fault"]

\* ---------------------------------------------------- process callback
\* a callback that reads port variables no open() has written
processCallback_unset(c, pin, pout) == <<Call("jack_port_get_buffer", NULLPORT.c, NULLPORT.k, {}, <<>>, TRUE), Call("jack_port_get_buffer", NULLPORT.c, NULLPORT.k, {}, <<>>, TRUE)>>

\* example-client/main.cpp:15-29 and main.cpp:139-148: the callback of
\* connection c asks the server for the buffers of inputPort and outputPort
processCallback(c, pin, pout) == <<Call("jack_port_get_buffer", pin.c, pin.k, {}, <<>>, TRUE), Call("jack_port_get_buffer", pout.c, pout.k, {}, <<>>, TRUE)>>

\* a shutdown handler that returns to the server's thread
jackShutdown_returns == "running"

\* jack_wrapper.h:193-195 and main.cpp:153-155: exit(1)
jackShutdown == "exit1"

\* getBufferSize() returning the other field
getBufferSize_rate(self) == self.sampleRate

\* jack_wrapper.h:149-155
getBufferSize(self) == self.bufferSize

getSampleRate(self) == self.sampleRate

\* ------------------------------------------------------------ the system
\* the memory of a program that has constructed nothing, and of one that
\* has terminated; the server is then rid of its connections too
NoObjects == [h \in Handles |-> NoObject]

NoPorts == [s \in 0..NumHandles |-> NULLPORT]

NoMidi == [h \in Handles |-> NULLPORT]

NoReport == [rate |-> UNINIT, buf |-> UNINIT]

NoReports == [h \in Handles |-> NoReport]

Alive(p, val, gone) == IF p = "running" THEN val ELSE gone

\* variant is the draft the program is built from, nh the number of handles
\* the program constructs
InitWith(n) ==
  /\ variant \in Variants
  /\ nh = n
  /\ proc = "running"
  /\ obj = NoObjects
  /\ inputPort = NoPorts
  /\ outputPort = NoPorts
  /\ midiVar = NoMidi
  /\ conn = <<>>
  /\ reported = NoReports
  /\ srvRate \in Rates
  /\ srvBuf \in BufSizes
  /\ lastOp = NoOp

\* the drivers: one handle (example-client/main.cpp:34, main.cpp:163)
Init == InitWith(1)

\* what an operation that leaves conn alone does to the program's memory
Terminates(p) ==
  /\ obj' = Alive(p, obj, NoObjects)
  /\ inputPort' = Alive(p, inputPort, NoPorts)
  /\ outputPort' = Alive(p, outputPort, NoPorts)
  /\ midiVar' = Alive(p, midiVar, NoMidi)
  /\ reported' = Alive(p, reported, NoReports)

\* handles are constructed in the order 1, 2, ...
MayConstruct(h) == proc = "running" /\ h <= nh /\ obj[h].life = "none" /\ (IF h = 1 THEN TRUE ELSE obj[h - 1].life # "none")

\* the effect of open() on handle h whose fields are self
DoOpen(opname, h, self) ==
  /\ Len(conn) < MaxConns
  /\ \E srv \in ServerOpenAnswers(self.clientName, self.options, variant = "hdr" /\ self.midiInput, conn) :
       LET r == open(variant, h, self, inputPort[Slot(h)], outputPort[Slot(h)], midiVar[h], Len(conn) + 1, srvRate, srvBuf, srv)
       IN  /\ obj' = Alive(r.proc, [obj EXCEPT ![h] = r.self], NoObjects)
           /\ inputPort' = Alive(r.proc, [inputPort EXCEPT ![Slot(h)] = r.inputPort], NoPorts)
           /\ outputPort' = Alive(r.proc, [outputPort EXCEPT ![Slot(h)] = r.outputPort], NoPorts)
           /\ midiVar' = Alive(r.proc, [midiVar EXCEPT ![h] = r.midiVar], NoMidi)
           /\ conn' = Alive(r.proc, conn \o r.conns, <<>>)
           /\ reported' = Alive(r.proc, [reported EXCEPT ![h] = [rate |-> srvRate, buf |-> IF variant = "hdr" THEN srvBuf ELSE UNINIT]], NoReports)
           /\ proc' = r.proc
           /\ lastOp' = Op(opname, h, self.midiInput, r.calls, r.msgs)
  /\ UNCHANGED <<variant, nh, srvRate, srvBuf>>

\* main.cpp:19-22: JackClient(clientName)
ConstructDraft(h) ==
  /\ variant = "draft"
  /\ MayConstruct(h)
  /\ \E nm \in ReqNames : obj' = [obj EXCEPT ![h] = [NoObject EXCEPT !.life = "alive", !.clientName = nm, !.options = "JackNullOption"]]
  /\ lastOp' = Op("construct", h, FALSE, <<>>, <<>>)
  /\ UNCHANGED <<variant, nh, proc, inputPort, outputPort, midiVar, conn, reported, srvRate, srvBuf>>

\* jack_wrapper.h:15-26: the constructor without MIDI input
Construct4(h) ==
  /\ variant = "hdr"
  /\ MayConstruct(h)
  /\ \E nm \in ReqNames : DoOpen("construct4", h, [NoObject EXCEPT !.life = "alive", !.clientName = nm, !.midiInputPort = "nullptr", !.midiInput = FALSE, !.options = "JackNullOption"])

\* jack_wrapper.h:28-35: the constructor with MIDI input; it leaves options
\* and serverName unset, and the caller chooses the pointer it passes
Construct5(h) ==
  /\ variant = "hdr"
  /\ MayConstruct(h)
  /\ \E nm \in ReqNames, mp \in {"nullptr", "ptr"} : DoOpen("construct5", h, [NoObject EXCEPT !.life = "alive", !.clientName = nm, !.midiInputPort = mp, !.midiInput = TRUE])

\* open() called by the owner, as both drivers do after constructing
Open(h) ==
  /\ proc = "running"
  /\ obj[h].life = "alive"
  /\ DoOpen("open", h, obj[h])

\* run() called by the owner
Run(h) ==
  /\ proc = "running"
  /\ obj[h].life = "alive"
  /\ \E srv \in ServerRunAnswers(obj[h].client \in DOMAIN conn /\ conn[obj[h].client].st # "closed") :
       LET r == run(obj[h], inputPort[Slot(h)], outputPort[Slot(h)], conn, srv)
       IN  /\ conn' = Alive(r.proc, r.conn, <<>>)
           /\ proc' = r.proc
           /\ lastOp' = Op("run", h, obj[h].midiInput, r.calls, r.msgs)
           /\ Terminates(r.proc)
  /\ UNCHANGED <<variant, nh, srvRate, srvBuf>>

\* the effect of close() on handle h
DoClose(opname, h, life) ==
  /\ \E ub \in {"benign", "fault"} :
       LET r == close(obj[h], conn, ub)
       IN  /\ conn' = Alive(r.proc, r.conn, <<>>)
           /\ proc' = r.proc
           /\ lastOp' = Op(opname, h, obj[h].midiInput, r.calls, r.msgs)
           /\ obj' = Alive(r.proc, [obj EXCEPT ![h].life = life], NoObjects)
           /\ inputPort' = Alive(r.proc, inputPort, NoPorts)
           /\ outputPort' = Alive(r.proc, outputPort, NoPorts)
           /\ midiVar' = Alive(r.proc, midiVar, NoMidi)
           /\ reported' = Alive(r.proc, reported, NoReports)
  /\ UNCHANGED <<variant, nh, srvRate, srvBuf>>

\* close() called by the owner
Close(h) ==
  /\ proc = "running"
  /\ obj[h].life = "alive"
  /\ DoClose("close", h, "alive")

\* jack_wrapper.h:37-39 and main.cpp:24-26: the destructor
Destroy(h) ==
  /\ proc = "running"
  /\ obj[h].life = "alive"
  /\ DoClose("destroy", h, "destroyed")

\* the server's real-time thread runs the process callback of an activated
\* connection: example-client/main.cpp:15-29 reads the caller's inputPort
\* and outputPort, main.cpp:139-148 the static ones
Process(c) ==
  /\ proc = "running"
  /\ c \in DOMAIN conn
  /\ conn[c].st = "active"
  /\ conn[c].cb
  /\ lastOp' = Op("process", conn[c].owner, FALSE, processCallback(c, inputPort[Slot(conn[c].owner)], outputPort[Slot(conn[c].owner)]), <<>>)
  /\ UNCHANGED <<variant, nh, proc, obj, inputPort, outputPort, midiVar, conn, reported, srvRate, srvBuf>>

\* jack_wrapper.h:190-195 and main.cpp:150-155: the server shuts down or
\* drops a connection that has the shutdown notifier installed; the one
\* call the notifier makes is exit(1), logged with the state (open or
\* active) the connection was in
Shutdown(c) ==
  /\ proc = "running"
  /\ c \in DOMAIN conn
  /\ conn[c].st # "closed"
  /\ conn[c].shut
  /\ proc' = jackShutdown
  /\ lastOp' = Op("jackShutdown", conn[c].owner, FALSE, <<Call("exit", c, conn[c].st, {}, <<>>, TRUE)>>, <<>>)
  /\ conn' = Alive(jackShutdown, conn, <<>>)
  /\ Terminates(jackShutdown)
  /\ UNCHANGED <<variant, nh, srvRate, srvBuf>>

\* jack_wrapper.h:77: the engine's buffer size changes; no callback handles it
BufferSizeChange ==
  /\ proc = "running"
  /\ \E b \in BufSizes \ {srvBuf} : srvBuf' = b
  /\ UNCHANGED <<variant, nh, proc, obj, inputPort, outputPort, midiVar, conn, reported, srvRate, lastOp>>

Next ==
  \/ \E h \in Handles : ConstructDraft(h)
  \/ \E h \in Handles : Construct4(h)
  \/ \E h \in Handles : Construct5(h)
  \/ \E h \in Handles : Open(h)
  \/ \E h \in Handles : Run(h)
  \/ \E h \in Handles : Close(h)
  \/ \E h \in Handles : Destroy(h)
  \/ \E c \in 1..MaxConns : Process(c)
  \/ \E c \in 1..MaxConns : Shutdown(c)
  \/ BufferSizeChange

Spec == Init /\ [][Next]_vars

\* ---------------------------------------------------------- the drivers
\* example-client/main.cpp:31-38 and main.cpp:162-165: construct a handle,
\* open() it once, run() it once.  The header's constructors have opened
\* one connection already when the driver calls open().
OpensByConstructor == IF variant = "hdr" THEN 1 ELSE 0

DriverOpen(h) == Len(conn) = OpensByConstructor /\ Open(h)

DriverRun(h) == Len(conn) = OpensByConstructor + 1 /\ obj[h].client \in DOMAIN conn /\ conn[obj[h].client].st = "open" /\ Run(h)

DriverNext ==
  \/ \E h \in Handles : ConstructDraft(h)
  \/ \E h \in Handles : Construct4(h)
  \/ \E h \in Handles : Construct5(h)
  \/ \E h \in Handles : DriverOpen(h)
  \/ \E h \in Handles : DriverRun(h)
  \/ \E c \in 1..MaxConns : Process(c)
  \/ \E c \in 1..MaxConns : Shutdown(c)
  \/ BufferSizeChange

SpecDriver == Init /\ [][DriverNext]_vars

\* --------------------------------------------------- coexisting handles
\* a program that constructs several handles of the class, one after the
\* other: in hdr each with its own pair of port variables, in draft all on
\* the class's static inputPort and outputPort (main.cpp:127-128, 159-160)
InitMany == InitWith(NumHandles)

\* the operations of the handles and of the server's threads, with the
\* engine's parameters staying as they are
NextMany ==
  \/ \E h \in Handles : ConstructDraft(h)
  \/ \E h \in Handles : Construct4(h)
  \/ \E h \in Handles : Construct5(h)
  \/ \E h \in Handles : Open(h)
  \/ \E h \in Handles : Run(h)
  \/ \E h \in Handles : Close(h)
  \/ \E h \in Handles : Destroy(h)
  \/ \E c \in 1..MaxConns : Process(c)
  \/ \E c \in 1..MaxConns : Shutdown(c)

SpecMany == InitMany /\ [][NextMany]_vars

\* ------------------------------------------------------ derived notions
\* the lifecycle state of handle h, read off the connection client names
State(h) ==
  IF obj[h].client \notin DOMAIN conn THEN "Unopened"
  ELSE IF conn[obj[h].client].st = "open" THEN "Opened"
  ELSE IF conn[obj[h].client].st = "active" THEN "Activated"
  ELSE "Closed"

\* a port handle is valid: it names a port that is registered on a
\* connection that is still open
PortValid(p) == p.c \in DOMAIN conn /\ conn[p.c].st # "closed" /\ p.k \in conn[p.c].ports

PortsValid(h) == PortValid(inputPort[Slot(h)]) /\ PortValid(outputPort[Slot(h)]) /\ (obj[h].midiInput => PortValid(midiVar[h]))

\* the ports handle h asks open() for
Requested(h) == {"input", "output"} \cup (IF obj[h].midiInput THEN {"midi_in"} ELSE {})

\* the handle's connection is one the server accepted and every port the
\* handle asked for is registered on it
OpenSucceeded(h) == obj[h].client \in DOMAIN conn /\ Requested(h) \subseteq conn[obj[h].client].ports

LiveHandles == {h \in Handles : proc = "running" /\ obj[h].life = "alive"}

\* the latest operation was an open(), explicit or from a constructor
OpenOp == lastOp.op \in {"construct4", "construct5", "open"}

Calls(f) == {i \in DOMAIN lastOp.calls : lastOp.calls[i].f = f}

CallsOf(f, name) == {i \in Calls(f) : lastOp.calls[i].name = name}

\* that open() got a client from the server / was refused one
Accepted == OpenOp /\ \E i \in Calls("jack_client_open") : lastOp.calls[i].ok

Refused == OpenOp /\ \E i \in Calls("jack_client_open") : ~lastOp.calls[i].ok

Registered(k) == \E i \in CallsOf("jack_port_register", k) : lastOp.calls[i].ok

NotRegistered(k) == \E i \in CallsOf("jack_port_register", k) : ~lastOp.calls[i].ok

Said(text) == \E i \in DOMAIN lastOp.msgs : lastOp.msgs[i].text = text

\* ------------------------------------------------------------------- C1
\* C1: close() is idempotent: closing a connection that open() obtained a
\* second time (by close() or by the destructor) does not fault and asks
\* the server for nothing, so no connection is asked to close twice.
C1_CloseIdempotent ==
  /\ \A c \in DOMAIN conn : ~conn[c].reclosed
  /\ ~(proc = "fault" /\ lastOp.op \in {"close", "destroy"} /\ \E i \in Calls("jack_client_close") : lastOp.calls[i].c >= 1)

\* ------------------------------------------------------------------- C2
\* C2: when the server accepts the connection and every requested port
\* registers, open() does not terminate the process and the handle is
\* Opened, with and without MIDI input.
C2_OpenSucceeds == (Accepted /\ Registered("input") /\ Registered("output") /\ (lastOp.midiInput => Registered("midi_in"))) => (proc = "running" /\ State(lastOp.h) = "Opened")

\* ------------------------------------------------------------------- C3
\* C3: open() terminates the process when the connection is refused or when
\* the registration of the input port, the output port or the requested
\* MIDI input port fails.
C3_OpenFailsFatally == (Refused \/ (Accepted /\ (NotRegistered("input") \/ NotRegistered("output") \/ (lastOp.midiInput /\ NotRegistered("midi_in"))))) => proc # "running"

\* ------------------------------------------------------------------- C4
\* C4: a handle is in exactly one lifecycle state and its port handles are
\* valid exactly when that state is Opened or Activated.
C4_PortsValidIffOpen == \A h \in LiveHandles : /\ State(h) \in {"Unopened", "Opened", "Activated", "Closed"} /\ (PortsValid(h) <=> State(h) \in {"Opened", "Activated"})

\* ------------------------------------------------------------------- C5
\* C5: the first thing run() does after activating is to query the capture
\* ports, and when that query returns none run() ends the process with
\* "no physical capture ports" having queried no playback ports and issued
\* no connect.
C5_CaptureCheckedFirst ==
  lastOp.op = "run" =>
    /\ Calls("jack_activate") = {1}
    /\ Len(lastOp.calls) >= 2 => (lastOp.calls[1].ok /\ lastOp.calls[2].f = "jack_get_ports" /\ lastOp.calls[2].name = "capture")
    /\ (\E i \in CallsOf("jack_get_ports", "capture") : lastOp.calls[i].args = <<>>) => (proc = "exit1" /\ Said("no physical capture ports") /\ CallsOf("jack_get_ports", "playback") = {} /\ Calls("jack_connect") = {})

C5_Witness == lastOp.op = "run" /\ proc = "exit1" /\ Len(lastOp.calls) = 2 /\ lastOp.calls[1].ok /\ lastOp.calls[2].name = "capture" /\ lastOp.calls[2].args = <<>>

\* ------------------------------------------------------------------- C6
\* C6: a failed connect never ends run(): after a failed capture connect
\* run() still queries the playback ports and, when there are some, tries
\* the playback connect; after a failed connect with both lists non-empty
\* run() returns with the handle Activated; and run() ends the process only
\* when activation fails or a query returns no ports.
C6_ConnectFailureNotFatal ==
  lastOp.op = "run" =>
    /\ \A i \in CallsOf("jack_connect", "capture") : ~lastOp.calls[i].ok => \E j \in CallsOf("jack_get_ports", "playback") : j > i /\ (lastOp.calls[j].args # <<>> => \E k \in CallsOf("jack_connect", "playback") : k > j)
    /\ CallsOf("jack_connect", "playback") # {} => (proc = "running" /\ State(lastOp.h) = "Activated")
    /\ proc # "running" => (\E i \in Calls("jack_activate") : ~lastOp.calls[i].ok) \/ (\E i \in Calls("jack_get_ports") : lastOp.calls[i].args = <<>>)

C6_Witness == lastOp.op = "run" /\ proc = "running" /\ State(lastOp.h) = "Activated" /\ (\E i \in CallsOf("jack_connect", "capture") : ~lastOp.calls[i].ok) /\ (\E i \in CallsOf("jack_connect", "playback") : ~lastOp.calls[i].ok)

\* ------------------------------------------------------------------- C7
\* C7: over the driver's sequence construct, open(), run() a handle has one
\* set of ports registered: ports are registered on at most one connection
\* for it, and on that one exactly the input port, the output port and the
\* MIDI input port if it was requested.
C7_OneSetOfPorts == \A h \in LiveHandles : /\ Cardinality({c \in DOMAIN conn : conn[c].owner = h /\ conn[c].ports # {}}) <= 1 /\ \A c \in DOMAIN conn : conn[c].owner = h => conn[c].ports \subseteq Requested(h)

\* ------------------------------------------------------------------- C8
\* C8: run() never succeeds on a handle whose open() did not succeed: a
\* run() that returns found a connection with every requested port
\* registered.
C8_NoRunAfterFailedOpen == (lastOp.op = "run" /\ proc = "running") => OpenSucceeded(lastOp.h)

\* ------------------------------------------------------------------- C9
\* C9: getBufferSize() and getSampleRate() return the values the server
\* reported at the handle's latest open(), whatever the server's buffer
\* size has become since and whatever run() did.
C9_AccessorsSnapshot == \A h \in LiveHandles : (variant = "hdr" /\ State(h) # "Unopened") => (getBufferSize(obj[h]) = reported[h].buf /\ getSampleRate(obj[h]) = reported[h].rate)

C9_Witness == \E h \in LiveHandles : variant = "hdr" /\ lastOp.op = "run" /\ lastOp.h = h /\ State(h) = "Activated" /\ getBufferSize(obj[h]) # srvBuf /\ getBufferSize(obj[h]) \in BufSizes /\ getSampleRate(obj[h]) \in Rates

\* ------------------------------------------------------------------ C10
\* C10: after an open() the handle goes by the name the server has for its
\* connection: when the server flags JackNameNotUnique that is a substitute
\* different from the name asked for, and it is written to the log; when
\* it does not, the name is the one asked for and nothing is logged.
C10_UniqueNameSurfaced ==
  (OpenOp /\ proc = "running") =>
    LET h == lastOp.h
        asked == lastOp.calls[1].args[1]
        flagged == "JackNameNotUnique" \in lastOp.calls[1].st
    IN  /\ obj[h].clientName = conn[obj[h].client].name
        /\ flagged => (obj[h].clientName # asked /\ \E i \in DOMAIN lastOp.msgs : lastOp.msgs[i].text = "Unique name assigned: " /\ lastOp.msgs[i].arg = <<obj[h].clientName>>)
        /\ ~flagged => (obj[h].clientName = asked /\ ~Said("Unique name assigned: "))

C10_Witness == OpenOp /\ proc = "running" /\ "JackNameNotUnique" \in lastOp.calls[1].st /\ obj[lastOp.h].clientName = conn[obj[lastOp.h].client].name /\ obj[lastOp.h].clientName.n > 0

\* ------------------------------------------------------------------ C11
\* C11: every connection open() obtains has the shutdown notifier installed
\* from the open() on, so before any run() activates it, and a shutdown
\* notification for a connection that is open or active ends the process
\* with exit(1) and nothing else: no close request, no other server call.
C11_ShutdownTerminates ==
  /\ \A c \in DOMAIN conn : conn[c].shut
  /\ Accepted => (Calls("jack_on_shutdown") # {} /\ \A i \in Calls("jack_port_register") : \E j \in Calls("jack_on_shutdown") : j < i)
  /\ lastOp.op = "run" => Calls("jack_on_shutdown") = {}
  /\ lastOp.op = "jackShutdown" => (proc = "exit1" /\ Len(lastOp.calls) = 1 /\ lastOp.calls[1].f = "exit" /\ lastOp.calls[1].name \in {"open", "active"} /\ Calls("jack_client_close") = {})

C11_Witness == lastOp.op = "jackShutdown" /\ proc = "exit1" /\ lastOp.calls[1].name = "active"

\* ------------------------------------------------------------------ C12
\* C12: constructing a handle opens no connection, at most one connection
\* is ever opened for a handle, and every connection the server has open
\* for the program is the one a live handle's client refers to, so that
\* close() can close it: none is open and unreferenced.
C12_NoLeakedConnection ==
  /\ lastOp.op \in {"construct", "construct4", "construct5"} => Calls("jack_client_open") = {}
  /\ \A h \in Handles : Cardinality({c \in DOMAIN conn : conn[c].owner = h}) <= 1
  /\ \A c \in DOMAIN conn : conn[c].st # "closed" => \E h \in LiveHandles : obj[h].client = c

\* ------------------------------------------------------------------ C13
\* C13: a port handle variable is written once: no step of a program that
\* goes on running changes inputPort, outputPort or the MIDI port variable
\* once it holds a port, and none changes a port variable of a handle
\* whose connection is activated.
C13_PortsWrittenOnce ==
  [][proc' = "running" =>
       /\ \A s \in 0..NumHandles : (inputPort[s] # NULLPORT => inputPort'[s] = inputPort[s]) /\ (outputPort[s] # NULLPORT => outputPort'[s] = outputPort[s])
       /\ \A h \in Handles : midiVar[h] # NULLPORT => midiVar'[h] = midiVar[h]
       /\ \A h \in LiveHandles : State(h) = "Activated" => (inputPort'[Slot(h)] = inputPort[Slot(h)] /\ outputPort'[Slot(h)] = outputPort[Slot(h)] /\ midiVar'[h] = midiVar[h])]_vars

\* ------------------------------------------------------------------ C14
\* C14: for each direction whose discovery returned a list, run() issues
\* exactly one connect, after that discovery: for capture from element 0 of
\* the list to the handle's input port, for playback from the handle's
\* output port to element 0 of the list, whatever the list holds and
\* whether or not a connect succeeded.
C14_FirstFoundWins ==
  lastOp.op = "run" =>
    /\ \A i \in Calls("jack_get_ports") :
         LET dir == lastOp.calls[i].name
             list == lastOp.calls[i].args
             own == PName(conn[obj[lastOp.h].client].name, IF dir = "capture" THEN "input" ELSE "output")
         IN  list # <<>> =>
               /\ Cardinality(CallsOf("jack_connect", dir)) = 1
               /\ \A j \in CallsOf("jack_connect", dir) :
                    /\ j = i + 1
                    /\ lastOp.calls[j].args[IF dir = "capture" THEN 1 ELSE 2] = list[1]
                    /\ lastOp.calls[j].args[IF dir = "capture" THEN 2 ELSE 1].short = (IF dir = "capture" THEN "input" ELSE "output")
                    /\ proc = "running" => lastOp.calls[j].args[IF dir = "capture" THEN 2 ELSE 1] = own
    /\ \A j \in Calls("jack_connect") : \E i \in CallsOf("jack_get_ports", lastOp.calls[j].name) : i < j /\ lastOp.calls[i].args # <<>>
    /\ Cardinality(Calls("jack_connect")) <= 2

C14_Witness == lastOp.op = "run" /\ proc = "running" /\ (\E i \in CallsOf("jack_get_ports", "capture") : Len(lastOp.calls[i].args) = 2) /\ (\E i \in CallsOf("jack_get_ports", "playback") : Len(lastOp.calls[i].args) = 2) /\ (\E j \in CallsOf("jack_connect", "capture") : ~lastOp.calls[j].ok /\ lastOp.calls[j].args[1] = PName("system", "capture_2")) /\ (\E j \in CallsOf("jack_connect", "playback") : lastOp.calls[j].args[2] = PName("system", "playback_2"))

\* ------------------------------------------------------------------ C15
\* C15: open() on one handle leaves the port handles of every other handle
\* as they were, and the input and output port handles of a handle that is
\* Opened or Activated are ports of its own connection, so that its
\* callback reads its own ports.
C15_PortsPerHandle ==
  [][(proc' = "running" /\ lastOp' # lastOp /\ lastOp'.op \in {"construct4", "construct5", "open"}) =>
       /\ \A h \in LiveHandles \ {lastOp'.h} : inputPort'[Slot(h)] = inputPort[Slot(h)] /\ outputPort'[Slot(h)] = outputPort[Slot(h)] /\ midiVar'[h] = midiVar[h]
       /\ \A h \in Handles : (obj'[h].life = "alive" /\ obj'[h].client \in DOMAIN conn' /\ conn'[obj'[h].client].st # "closed") => (inputPort'[Slot(h)].c = obj'[h].client /\ outputPort'[Slot(h)].c = obj'[h].client)]_vars

\* ------------------------------------------------------------------ C16
\* C16: in the driver sequences, whenever the process callback runs, the
\* connection it runs for is one run() activated and nobody closed, the
\* handle's client is that connection, and the two ports whose buffers the
\* callback asks for are the input and the output port registered on it.
C16_CallbackReadsOwnPorts ==
  (lastOp.op = "process" /\ proc = "running") =>
    \E c \in DOMAIN conn :
      /\ conn[c].st = "active" /\ conn[c].cb /\ conn[c].owner = lastOp.h /\ obj[lastOp.h].client = c
      /\ Len(lastOp.calls) = 2
      /\ lastOp.calls[1].c = c /\ lastOp.calls[1].name = "input" /\ "input" \in conn[c].ports
      /\ lastOp.calls[2].c = c /\ lastOp.calls[2].name = "output" /\ "output" \in conn[c].ports
      /\ \A d \in DOMAIN conn \ {c} : conn[d].st # "active"

C16_Witness == lastOp.op = "process" /\ proc = "running" /\ variant = "hdr" /\ Len(conn) = 2 /\ conn[1].st = "open" /\ conn[1].cb /\ conn[2].st = "active" /\ lastOp.calls[1].c = 2

\* ------------------------------------------------------------------ C17
\* C17: the server calls of a run() are, in this order and each at most
\* once, activate, capture discovery, capture connect, playback discovery,
\* playback connect; a call after activate is made only when activate
\* succeeded; when activate fails it is the only call and the process
\* ends; and a run() that returns has made all five.
C17_RunOrder ==
  lastOp.op = "run" =>
    LET sc == SelectSeq(lastOp.calls, LAMBDA x : x.f \in {"jack_activate", "jack_get_ports", "jack_connect"})
        order == <<(<<"jack_activate", "">>), (<<"jack_get_ports", "capture">>), (<<"jack_connect", "capture">>), (<<"jack_get_ports", "playback">>), (<<"jack_connect", "playback">>)>>
    IN  /\ Len(sc) \in 1..5
        /\ \A i \in DOMAIN sc : <<sc[i].f, sc[i].name>> = order[i]
        /\ Len(sc) > 1 => sc[1].ok
        /\ ~sc[1].ok => (proc # "running" /\ Len(lastOp.calls) = 1)
        /\ proc = "running" => Len(sc) = 5

C17_Witness == lastOp.op = "run" /\ proc = "exit1" /\ Len(lastOp.calls) = 1 /\ lastOp.calls[1].f = "jack_activate" /\ ~lastOp.calls[1].ok /\ lastOp.calls[1].c >= 1 /\ Said("Cannot activate client!")

\* ------------------------------------------------------------------ C18
\* C18: in the explicit-open draft every close request that close() or the
\* destructor sends the server is for a connection an open() obtained; in
\* particular a handle destroyed without any open() sends none.
C18_CloseOnlyOpened == (variant = "draft" /\ lastOp.op \in {"close", "destroy"}) => \A i \in Calls("jack_client_close") : lastOp.calls[i].c >= 1

\* ------------------------------------------------------------------ C19
\* C19: in a run() that returns, each list a discovery returned is freed
\* exactly once, after that discovery; the capture list is freed before
\* the playback discovery; every call that reads an element of a list
\* (the connect and the line printing the playback port) comes between
\* the discovery of that list and its release; and nothing is freed that
\* no discovery returned.
C19_ListsReleasedOnce ==
  lastOp.op = "run" =>
    /\ \A j \in Calls("free") : \E i \in CallsOf("jack_get_ports", lastOp.calls[j].name) : i < j /\ lastOp.calls[i].args = lastOp.calls[j].args /\ lastOp.calls[j].args # <<>>
    /\ \A i \in Calls("jack_get_ports"), k \in Calls("jack_connect") \cup Calls("cout") : lastOp.calls[k].name = lastOp.calls[i].name => (i < k /\ \A j \in CallsOf("free", lastOp.calls[i].name) : k < j)
    /\ \A j \in CallsOf("free", "capture"), i \in CallsOf("jack_get_ports", "playback") : j < i
    /\ \A d \in {"capture", "playback"} : Cardinality(CallsOf("free", d)) <= Cardinality(CallsOf("jack_get_ports", d))
    /\ proc = "running" => \A d \in {"capture", "playback"} : Cardinality(CallsOf("jack_get_ports", d)) = 1 /\ Cardinality(CallsOf("free", d)) = 1

C19_Witness == lastOp.op = "run" /\ proc = "running" /\ Cardinality(Calls("free")) = 2 /\ Calls("cout") # {} /\ (\E j \in CallsOf("free", "capture") : Len(lastOp.calls[j].args) = 2) /\ (\E k \in CallsOf("jack_connect", "playback") : ~lastOp.calls[k].ok)

====
